---- MODULE Spec2Model ----
(***************************************************************************)
(* tap-mssql: the type mapper (MSSQLConnector), the record stream          *)
(* (MSSQLStream.post_process / get_records) and the JSON-lines batcher     *)
(* (JSONLinesBatcher.get_batches) of src/tap_mssql/client.py, and the     *)
(* message encoder (enc_hook, Tapmssql.write_message) of tap.py.           *)
(*                                                                         *)
(* Python values are modelled as follows.                                  *)
(*   None / an absent dict key : the empty sequence <<>>; a present value  *)
(*                               v is <<v>>  (None, Some).                 *)
(*   str                       : a TLA+ string; while a string is being    *)
(*                               built or searched it is a sequence of     *)
(*                               one-character strings, joined by Join.    *)
(*   int of arbitrary size     : sign and decimal digits (BigInt).         *)
(*   float                     : the literal it was parsed from.           *)
(***************************************************************************)
EXTENDS Integers, Sequences, FiniteSets, TLC

VARIABLES
    \* MSSQLConnector.to_jsonschema_type
    hd_jsonschema_types,  \* config["hd_jsonschema_types"]
    sql_type,             \* the TypeEngine object passed in
    schema_type,          \* the returned JSON Schema type, None before the call
    tm_pc,                \* "call" before the call, "returned" after it
    \* MSSQLStream.post_process, called once and then again on its own output
    pp_row,               \* the row passed in
    pp_properties,        \* self.schema["properties"]
    pp_first,             \* outcome of the first call, None before it
    pp_second,            \* outcome of the second call, None before it
    \* MSSQLStream.get_records
    context,                 \* the context argument: None or a dictionary
    replication_key,         \* self.replication_key: None or a column name
    bookmark,                \* the stream state's starting value, None or a value
    ABORT_AT_RECORD_COUNT,   \* None or the abort threshold
    column_types,            \* the SQL type of each column of the table
    key_nullable,            \* whether the key column accepts NULL
    table,                   \* the rows of the table, in storage order
    query,                   \* the query built, None before it is built
    cursor,                  \* rows of the result not yet iterated
    fetched,                 \* rows iterated so far, as the driver returned them
    emitted,                 \* records yielded so far
    gr_pc,                   \* "call", "iterating", "done" or "raised"
    gr_error,                \* the exception raised, "" if none
    \* JSONLinesBatcher.get_batches
    records,              \* the records argument: what the iterator has left
    consumed,             \* the records pulled from the iterator so far
    batch_size,           \* batch_config.batch_size
    storage_prefix,       \* batch_config.storage.prefix, None or a string
    sync_id,              \* the run id, None before it is drawn
    run_uuid,             \* the uuid4() drawn for this invocation, None before
    chunk_index,          \* i of the enumerate loop, 0 before the first chunk
    chunk,                \* the chunk being written, None between chunks
    files,                \* the files of the storage: name and content, in order
    manifests,            \* the manifests yielded so far
    opened,               \* names of the files this invocation has opened, in order
    past_runs,            \* earlier invocations: the uuid drawn and the files opened
    gb_pc,                \* "call", "pull", "open", "write", "yield" or "done"
    \* enc_hook of tap.py
    enc_obj,              \* the object passed in
    enc_result,           \* the outcome of the call, None before it
    \* Tapmssql.write_message
    pending,              \* the messages still to be passed to write_message
    written,              \* the messages passed so far, in call order
    msg_buffer,           \* the module-level bytearray
    stdout                \* what sys.stdout.buffer received, one entry per write

tm_vars == <<hd_jsonschema_types, sql_type, schema_type, tm_pc>>
pp_vars == <<pp_row, pp_properties, pp_first, pp_second>>

gr_vars ==
    <<context, replication_key, bookmark, ABORT_AT_RECORD_COUNT, column_types,
      key_nullable, table, query, cursor, fetched, emitted, gr_pc, gr_error>>

gb_vars ==
    <<records, consumed, batch_size, storage_prefix, sync_id, run_uuid, chunk_index,
      chunk, files, manifests, opened, past_runs, gb_pc>>

eh_vars == <<enc_obj, enc_result>>
wm_vars == <<pending, written, msg_buffer, stdout>>

vars == <<tm_vars, pp_vars, gr_vars, gb_vars, eh_vars, wm_vars>>

(***************************************************************************)
(* Bounds of the model.                                                    *)
(***************************************************************************)
MaxPrecision == 18   \* largest NUMERIC/DECIMAL precision explored
MaxLength == 3       \* largest declared length of a text or binary type
MaxBytes == 2        \* longest binary value explored
MaxRows == 3         \* most rows in the table
MaxAbort == 2        \* largest abort threshold explored
MaxRecords == 4      \* most records handed to the batcher
MaxBatchSize == 3    \* largest batch size explored
MaxInvocations == 2  \* most invocations of get_batches on one batcher
MaxMessages == 3     \* most messages passed to write_message

(***************************************************************************)
(* Python helpers.                                                         *)
(***************************************************************************)
None == <<>>
Some(v) == <<v>>
Value(opt) == opt[1]

RECURSIVE Join(_)
Join(chars) == IF chars = <<>> THEN "" ELSE Head(chars) \o Join(Tail(chars))

RECURSIVE Repeat(_, _)
Repeat(c, n) == IF n <= 0 THEN <<>> ELSE <<c>> \o Repeat(c, n - 1)

\* `c in s` for a one-character c
Contains(chars, c) == \E i \in 1..Len(chars) : chars[i] = c

\* `"e+" in s`
ContainsExponent(chars) ==
    \E i \in 1..(Len(chars) - 1) : chars[i] = "e" /\ chars[i + 1] = "+"

IsDigit(c) == c \in {"0", "1", "2", "3", "4", "5", "6", "7", "8", "9"}

\* the first digit character of a string of digits, points and signs
LeadingDigit(chars) ==
    chars[CHOOSE i \in 1..Len(chars) :
              IsDigit(chars[i]) /\ \A j \in 1..(i - 1) : ~IsDigit(chars[j])]

(***************************************************************************)
(* Python's unbounded integers, as far as pow(10, p), unary minus, +1 and  *)
(* -1 need them: a sign and the decimal digits, most significant first.    *)
(***************************************************************************)
RECURSIVE MagInc(_)
MagInc(digits) ==
    IF digits = <<>> THEN <<1>>
    ELSE LET n == Len(digits)
             init == SubSeq(digits, 1, n - 1)
         IN IF digits[n] < 9 THEN Append(init, digits[n] + 1)
            ELSE Append(MagInc(init), 0)

RECURSIVE MagDec(_)
MagDec(digits) ==
    LET n == Len(digits)
        init == SubSeq(digits, 1, n - 1)
    IN IF digits[n] > 0 THEN Append(init, digits[n] - 1)
       ELSE Append(MagDec(init), 9)

RECURSIVE StripZeros(_)
StripZeros(digits) ==
    IF Len(digits) > 1 /\ Head(digits) = 0 THEN StripZeros(Tail(digits))
    ELSE digits

IsZero(x) == StripZeros(x.digits) = <<0>>

BigNorm(x) ==
    LET d == StripZeros(x.digits)
    IN [neg |-> x.neg /\ d # <<0>>, digits |-> d]

\* pow(10, p)
pow10(p) == [neg |-> FALSE, digits |-> <<1>> \o Repeat(0, p)]

\* -x
BigNeg(x) == BigNorm([neg |-> ~x.neg, digits |-> x.digits])

\* x + 1
BigAdd1(x) ==
    IF x.neg THEN BigNorm([neg |-> TRUE, digits |-> MagDec(x.digits)])
    ELSE [neg |-> FALSE, digits |-> MagInc(x.digits)]

\* x - 1
BigSub1(x) ==
    IF x.neg THEN [neg |-> TRUE, digits |-> MagInc(x.digits)]
    ELSE IF IsZero(x) THEN [neg |-> TRUE, digits |-> <<1>>]
    ELSE BigNorm([neg |-> FALSE, digits |-> MagDec(x.digits)])

RECURSIVE DigitChars(_)
DigitChars(digits) ==
    IF digits = <<>> THEN <<>>
    ELSE <<ToString(Head(digits))>> \o DigitChars(Tail(digits))

\* str(x)
BigStr(x) == (IF x.neg THEN "-" ELSE "") \o Join(DigitChars(x.digits))

(***************************************************************************)
(* JSON numbers of a schema: an int by its decimal text, a float by the    *)
(* literal handed to float().                                              *)
(***************************************************************************)
IntNum(text) == [kind |-> "int", text |-> text]
FloatNum(text) == [kind |-> "float", text |-> text]

(***************************************************************************)
(* JSON Schema type dictionaries: every key the mappers can set, None      *)
(* where the dictionary has no such key.                                   *)
(***************************************************************************)
JsonType(type) ==
    [type |-> <<type>>, minimum |-> None, maximum |-> None, maxLength |-> None,
     format |-> None, contentEncoding |-> None, contentMediaType |-> None]

Bounded(type, minimum, maximum) ==
    [JsonType(type) EXCEPT !.minimum = Some(minimum), !.maximum = Some(maximum)]

(***************************************************************************)
(* SQL types: TypeEngine objects as reflection returns them, by class name *)
(* and the attributes the mappers read.                                    *)
(***************************************************************************)
TextTypes == {"CHAR", "NCHAR", "VARCHAR", "NVARCHAR"}
BinaryTypes == {"BINARY", "IMAGE", "VARBINARY"}
RowVersionTypes == {"ROWVERSION", "TIMESTAMP"}
DecimalTypes == {"NUMERIC", "DECIMAL"}
PlainTypes ==
    {"TIME", "UNIQUEIDENTIFIER", "XML", "BIT", "TINYINT", "SMALLINT", "INTEGER",
     "BIGINT", "SMALLMONEY", "MONEY", "FLOAT", "REAL", "DATE", "DATETIME"}

SqlType(name, length, precision, scale) ==
    [name |-> name, length |-> length, precision |-> precision, scale |-> scale]

\* lengths SQL Server declares: 1..n, or none for the (max) types
Lengths == {None} \cup {Some(l) : l \in 1..MaxLength}

SqlTypes ==
    {SqlType(n, l, None, None) : n \in TextTypes \cup BinaryTypes, l \in Lengths}
    \cup {SqlType(n, None, None, None) : n \in RowVersionTypes \cup PlainTypes}
    \cup UNION {{SqlType(n, None, Some(p), Some(s)) : s \in 0..p, n \in DecimalTypes} :
                p \in 1..MaxPrecision}

\* truth value of an Optional[int]
Truthy(opt) == opt # None /\ Value(opt) # 0

(***************************************************************************)
(* SQLConnector.to_jsonschema_type of singer_sdk, the generic mapping both *)
(* policies fall back to. It takes a type object or, from the basic        *)
(* policy, one of the type names "int", "number", "bool", "string"         *)
(* (StrType). Text types carry maxLength only when a length is declared;   *)
(* no result carries contentEncoding.                                      *)
(***************************************************************************)
StrType(name) == SqlType(name, None, None, None)

SQLConnector_to_jsonschema_type(t) ==
    CASE t.name \in {"int", "TINYINT", "SMALLINT", "INTEGER", "BIGINT"} ->
            JsonType("integer")
      [] t.name \in {"number", "FLOAT", "REAL"} \cup DecimalTypes ->
            JsonType("number")
      [] t.name \in {"bool", "BIT"} -> JsonType("boolean")
      [] t.name \in TextTypes ->
            IF Truthy(t.length)
            THEN [JsonType("string") EXCEPT !.maxLength = t.length]
            ELSE JsonType("string")
      [] t.name = "DATE" -> [JsonType("string") EXCEPT !.format = Some("date")]
      [] t.name = "DATETIME" ->
            [JsonType("string") EXCEPT !.format = Some("date-time")]
      [] t.name = "TIME" -> [JsonType("string") EXCEPT !.format = Some("time")]
      [] OTHER -> JsonType("string")

(***************************************************************************)
(* The basic policy.                                                       *)
(***************************************************************************)
org_to_jsonschema_type(t) ==
    LET \* str(sql_type).startswith("NUMERIC"), .endswith(", 0)")
        t1 == IF t.name = "NUMERIC"
              THEN (IF t.scale = Some(0) THEN StrType("int") ELSE StrType("number"))
              ELSE t
        t2 == IF t1.name \in {"MONEY", "SMALLMONEY"} THEN StrType("number") ELSE t1
        t3 == IF t2.name \in {"BIT"} THEN StrType("bool") ELSE t2
        t4 == IF t3.name \in {"ROWVERSION", "TIMESTAMP"} THEN StrType("string") ELSE t3
    IN SQLConnector_to_jsonschema_type(t4)

(***************************************************************************)
(* The extended policy, NUMERIC and DECIMAL with scale # 0.                *)
(***************************************************************************)
\* maximum_as_number after the loop `for i in range(precision)`
RECURSIVE maximum_as_number(_, _, _)
maximum_as_number(i, precision, scale) ==
    IF i = 0 THEN <<>>
    ELSE maximum_as_number(i - 1, precision, scale)
         \o (IF i - 1 = precision - scale THEN <<".">> ELSE <<>>)
         \o <<"9">>

\* maximum_scientific_format
maximum_scientific_format(precision, scale) ==
    <<"9", ".">> \o Repeat("9", scale) \o <<"e", "+", ToString(precision)>>

\* The literals of 16 nines whose nearest double prints, in its shortest
\* round-trip form, with a final 8: the scales of those literals.
ReprEndsIn8 == {2, 3, 5, 6, 9, 12, 15}

(* str(float(literal)) for a literal of nines with a decimal point, as     *)
(* IEEE-754 doubles and Python's shortest round-trip repr give it: up to   *)
(* 15 significant digits come back unchanged, but for a leading 0 when no  *)
(* digit precedes the point; 16 digits may come back with a final 8; from  *)
(* 17 digits on the nearest double is the next power of ten, printed in    *)
(* exponent form from 1e+16 on.                                            *)
str_float(literal) ==
    LET point == CHOOSE i \in 1..Len(literal) : literal[i] = "."
        whole == point - 1
        frac == Len(literal) - point
        digits == whole + frac
        zero == IF whole = 0 THEN <<"0">> ELSE <<>>
    IN IF digits <= 15 THEN zero \o literal
       ELSE IF digits = 16
       THEN zero \o (IF frac \in ReprEndsIn8
                     THEN SubSeq(literal, 1, Len(literal) - 1) \o <<"8">>
                     ELSE literal)
       ELSE IF whole < 16 THEN <<"1">> \o Repeat("0", whole) \o <<".", "0">>
       ELSE <<"1", "e", "+", ToString(whole)>>

\* the test that selects the decimal-literal bounds
reports_decimal_literal_no_digit_test(rendering) ==
    ~ContainsExponent(rendering)

reports_decimal_literal(rendering) ==
    ~ContainsExponent(rendering) /\ ~Contains(rendering, "1")

(***************************************************************************)
(* The extended policy.                                                    *)
(***************************************************************************)
\* a text type whose length is declared
text_with_length_wrong_max(length) ==
    [JsonType("string") EXCEPT !.maxLength = Some(Value(length) + 1)]

text_with_length(length) ==
    [JsonType("string") EXCEPT !.maxLength = length]

\* (-pow(10, precision))+1
integer_minimum_no_plus_one(precision) == BigStr(BigNeg(pow10(precision)))

integer_minimum(precision) == BigStr(BigAdd1(BigNeg(pow10(precision))))

\* (pow(10, precision))-1
integer_maximum(precision) == BigStr(BigSub1(pow10(precision)))

hd_to_jsonschema_type(t) ==
    IF t.name \in TextTypes /\ Truthy(t.length)
    THEN text_with_length(t.length)
    ELSE IF t.name = "TIME"
    THEN [JsonType("string") EXCEPT !.format = Some("time")]
    ELSE IF t.name = "UNIQUEIDENTIFIER"
    THEN [JsonType("string") EXCEPT !.format = Some("uuid")]
    ELSE IF t.name = "XML"
    THEN [JsonType("string") EXCEPT !.contentMediaType = Some("application/xml")]
    ELSE IF t.name \in BinaryTypes
    THEN IF Truthy(t.length)
         THEN [JsonType("string") EXCEPT !.contentEncoding = Some("base64"),
                                         !.maxLength = t.length]
         ELSE [JsonType("string") EXCEPT !.contentEncoding = Some("base64")]
    ELSE IF t.name \in RowVersionTypes
    THEN [JsonType("string") EXCEPT !.contentEncoding = Some("base64"),
                                    !.maxLength = Some(12)]
    ELSE IF t.name = "BIT" THEN JsonType("boolean")
    ELSE IF t.name = "TINYINT"
    THEN Bounded("integer", IntNum("0"), IntNum("255"))
    ELSE IF t.name = "SMALLINT"
    THEN Bounded("integer", IntNum("-32768"), IntNum("32767"))
    ELSE IF t.name = "INTEGER"
    THEN Bounded("integer", IntNum("-2147483648"), IntNum("2147483647"))
    ELSE IF t.name = "BIGINT"
    THEN Bounded("integer", IntNum("-9223372036854775808"),
                 IntNum("9223372036854775807"))
    ELSE IF t.name \in DecimalTypes
    THEN LET precision == Value(t.precision)
             scale == Value(t.scale)
             max_lit == maximum_as_number(precision, precision, scale)
             min_lit == <<"-">> \o max_lit
             max_sci == maximum_scientific_format(precision, scale)
             min_sci == <<"-">> \o max_sci
         IN IF scale = 0
            THEN Bounded("integer",
                         IntNum(integer_minimum(precision)),
                         IntNum(integer_maximum(precision)))
            ELSE IF reports_decimal_literal(str_float(max_lit))
            THEN Bounded("number", FloatNum(Join(min_lit)), FloatNum(Join(max_lit)))
            ELSE Bounded("number", FloatNum(Join(min_sci)), FloatNum(Join(max_sci)))
    ELSE IF t.name = "SMALLMONEY"
    THEN Bounded("number", FloatNum("-214748.3648"), FloatNum("214748.3647"))
    ELSE IF t.name = "MONEY"
    THEN Bounded("number", FloatNum("-922337203685477.5808"),
                 FloatNum("922337203685477.5807"))
    ELSE IF t.name = "FLOAT"
    THEN Bounded("number", FloatNum("-1.79e308"), FloatNum("1.79e308"))
    ELSE IF t.name = "REAL"
    THEN Bounded("number", FloatNum("-3.40e38"), FloatNum("3.40e38"))
    ELSE SQLConnector_to_jsonschema_type(t)

\* MSSQLConnector.to_jsonschema_type: the policy the configuration selects
to_jsonschema_type(hd, t) ==
    IF hd THEN hd_to_jsonschema_type(t) ELSE org_to_jsonschema_type(t)

(***************************************************************************)
(* The type mapper as a state machine: one call on one type.               *)
(***************************************************************************)
IdleTypes ==
    /\ hd_jsonschema_types = FALSE
    /\ sql_type = None
    /\ schema_type = None
    /\ tm_pc = "idle"

InitTypes ==
    /\ hd_jsonschema_types \in BOOLEAN
    /\ sql_type \in SqlTypes
    /\ schema_type = None
    /\ tm_pc = "call"

MapType ==
    /\ tm_pc = "call"
    /\ schema_type' = Some(to_jsonschema_type(hd_jsonschema_types, sql_type))
    /\ tm_pc' = "returned"
    /\ UNCHANGED <<hd_jsonschema_types, sql_type>>
    /\ UNCHANGED <<pp_vars, gr_vars, gb_vars, eh_vars, wm_vars>>

NextTypes == MapType

(***************************************************************************)
(* Values of a row: None, int, str, bytes, datetime.date,                  *)
(* datetime.datetime (a subclass of date) and datetime.time. `data` holds  *)
(* the int, the bytes, or the calendar and clock fields; `text` the str.   *)
(***************************************************************************)
PyValue(kind, data, text) == [kind |-> kind, data |-> data, text |-> text]
PyNone == PyValue("None", <<>>, "")
PyInt(n) == PyValue("int", <<n>>, "")
PyStr(text) == PyValue("str", <<>>, text)
PyBytes(bytes) == PyValue("bytes", bytes, "")
PyDate(y, m, d) == PyValue("date", <<y, m, d>>, "")
PyDateTime(y, m, d, hh, mm, ss, us) == PyValue("datetime", <<y, m, d, hh, mm, ss, us>>, "")
PyTime(hh, mm, ss, us) == PyValue("time", <<hh, mm, ss, us>>, "")

\* isinstance(value, datetime.date)
isinstance_date(value) == value.kind \in {"date", "datetime"}

RECURSIVE ZeroPad(_, _)
ZeroPad(text, width) ==
    IF Len(text) >= width THEN text ELSE ZeroPad("0" \o text, width)

Pad(n, width) == ZeroPad(ToString(n), width)

\* date.isoformat() and datetime.isoformat() of naive values
isoformat(value) ==
    LET f == value.data
        day == Pad(f[1], 4) \o "-" \o Pad(f[2], 2) \o "-" \o Pad(f[3], 2)
    IN IF value.kind = "date" THEN day
       ELSE day \o "T" \o Pad(f[4], 2) \o ":" \o Pad(f[5], 2) \o ":" \o Pad(f[6], 2)
                \o (IF f[7] = 0 THEN "" ELSE "." \o Pad(f[7], 6))

Base64Alphabet ==
    <<"A", "B", "C", "D", "E", "F", "G", "H", "I", "J", "K", "L", "M", "N", "O", "P",
      "Q", "R", "S", "T", "U", "V", "W", "X", "Y", "Z", "a", "b", "c", "d", "e", "f",
      "g", "h", "i", "j", "k", "l", "m", "n", "o", "p", "q", "r", "s", "t", "u", "v",
      "w", "x", "y", "z", "0", "1", "2", "3", "4", "5", "6", "7", "8", "9", "+", "/">>

Sextet(n, k) == Base64Alphabet[((n \div (64 ^ k)) % 64) + 1]

\* base64.b64encode(bytes).decode()
RECURSIVE b64encode(_)
b64encode(bytes) ==
    IF bytes = <<>> THEN ""
    ELSE IF Len(bytes) = 1
    THEN LET n == bytes[1] * 65536
         IN Sextet(n, 3) \o Sextet(n, 2) \o "=="
    ELSE IF Len(bytes) = 2
    THEN LET n == bytes[1] * 65536 + bytes[2] * 256
         IN Sextet(n, 3) \o Sextet(n, 2) \o Sextet(n, 1) \o "="
    ELSE LET n == bytes[1] * 65536 + bytes[2] * 256 + bytes[3]
         IN Sextet(n, 3) \o Sextet(n, 2) \o Sextet(n, 1) \o Sextet(n, 0)
            \o b64encode(SubSeq(bytes, 4, Len(bytes)))

(***************************************************************************)
(* Dictionaries are functions on their key sets; items() visits the keys   *)
(* in insertion order, here the order of Columns.                          *)
(***************************************************************************)
Columns == <<"id", "val">>
ColumnSet == {Columns[i] : i \in 1..Len(Columns)}

dict_get(dict, key) == IF key \in DOMAIN dict THEN Some(dict[key]) ELSE None

Keys(dict) == SelectSeq(Columns, LAMBDA k : k \in DOMAIN dict)

(***************************************************************************)
(* MSSQLStream.post_process. The outcome is the exception raised ("" when  *)
(* the call returns) and the row dictionary, which is updated in place.    *)
(***************************************************************************)
Outcome(error, record) == [error |-> error, record |-> record]

\* the loop body for one item
post_process_item(record, properties, key) ==
    LET value == record[key]
        property_schema == dict_get(properties, key)
        dated == IF isinstance_date(value)
                 THEN [record EXCEPT ![key] = PyStr(isoformat(value))]
                 ELSE record
    IN IF value = PyNone THEN Outcome("", record)
       \* None.get(...)
       ELSE IF property_schema = None THEN Outcome("AttributeError", dated)
       ELSE IF Value(property_schema).contentEncoding = Some("base64")
       \* b64encode accepts bytes only
       THEN IF value.kind = "bytes"
            THEN Outcome("", [dated EXCEPT ![key] = PyStr(b64encode(value.data))])
            ELSE Outcome("TypeError", dated)
       ELSE Outcome("", dated)

RECURSIVE post_process_items(_, _, _)
post_process_items(outcome, properties, keys) ==
    IF keys = <<>> \/ outcome.error # "" THEN outcome
    ELSE post_process_items(post_process_item(outcome.record, properties, Head(keys)),
                            properties, Tail(keys))

post_process(row, properties) ==
    post_process_items(Outcome("", row), properties, Keys(row))

(***************************************************************************)
(* post_process as a state machine: a call on any row, then a call on the  *)
(* row the first call returned.                                            *)
(***************************************************************************)
RECURSIVE SeqsUpTo(_, _)
SeqsUpTo(S, n) ==
    IF n = 0 THEN {<<>>}
    ELSE LET shorter == SeqsUpTo(S, n - 1)
         IN shorter \cup {Append(q, x) : q \in {r \in shorter : Len(r) = n - 1}, x \in S}

ByteValues == {0, 1, 255}

RowValues ==
    {PyNone, PyInt(1), PyStr("x"), PyDate(2024, 1, 5),
     PyDateTime(2024, 1, 5, 13, 7, 9, 0), PyDateTime(2024, 1, 5, 13, 7, 9, 250),
     PyTime(13, 7, 9, 0)}
    \cup {PyBytes(b) : b \in SeqsUpTo(ByteValues, MaxBytes)}

PropertySchemas ==
    {to_jsonschema_type(hd, t) :
        hd \in BOOLEAN,
        t \in {SqlType("VARBINARY", None, None, None), SqlType("INTEGER", None, None, None),
               SqlType("DATE", None, None, None)}}

Dicts(V) == UNION {[K -> V] : K \in SUBSET ColumnSet}

IdlePost ==
    /\ pp_row = <<>>
    /\ pp_properties = <<>>
    /\ pp_first = None
    /\ pp_second = None

InitPost ==
    /\ pp_row \in Dicts(RowValues)
    /\ pp_properties \in Dicts(PropertySchemas)
    /\ pp_first = None
    /\ pp_second = None

PostProcess ==
    /\ pp_first = None
    /\ pp_first' = Some(post_process(pp_row, pp_properties))
    /\ UNCHANGED <<pp_row, pp_properties, pp_second>>
    /\ UNCHANGED <<tm_vars, gr_vars, gb_vars, eh_vars, wm_vars>>

\* the caller hands the returned row to post_process once more
PostProcessAgain ==
    /\ pp_first # None /\ Value(pp_first).error = ""
    /\ pp_second = None
    /\ pp_second' = Some(post_process(Value(pp_first).record, pp_properties))
    /\ UNCHANGED <<pp_row, pp_properties, pp_first>>
    /\ UNCHANGED <<tm_vars, gr_vars, gb_vars, eh_vars, wm_vars>>

NextPost == PostProcess \/ PostProcessAgain

(***************************************************************************)
(* MSSQLStream.get_records.                                                *)
(***************************************************************************)
\* class attribute supports_nulls_first
supports_nulls_first_enabled == TRUE

supports_nulls_first == FALSE

\* bool(value) of a row value
bool(value) ==
    CASE value.kind = "None" -> FALSE
      [] value.kind = "int" -> value.data[1] # 0
      [] value.kind = "str" -> value.text # ""
      [] value.kind = "bytes" -> value.data # <<>>
      [] OTHER -> TRUE

\* `if context:` -- a dictionary is true when it has an item
context_given_when_not_none(ctx) == ctx # None

context_given(ctx) == ctx # None /\ Value(ctx) # {}

\* `if start_val:`
bookmark_given(start_val) == start_val # None /\ bool(Value(start_val))

\* self.ABORT_AT_RECORD_COUNT + 1
abort_limit_without_extra_row(threshold) == threshold

abort_limit(threshold) == threshold + 1

\* get_starting_timestamp / get_starting_replication_key_value of singer_sdk:
\* the starting value of the stream state, a datetime for a date or datetime
\* key column and the raw value otherwise
start_value(python_type, state_value) == state_value

Query(order_by, where, limit) == [order_by |-> order_by, where |-> where, limit |-> limit]

\* lines 497-538: the query get_records builds
build_query(key, python_type, state_value, threshold) ==
    LET order_by == IF key = None THEN None
                    ELSE IF supports_nulls_first THEN Some("nulls_first(asc)")
                    ELSE Some("asc")
        start_val == start_value(python_type, state_value)
        where == IF key # None /\ bookmark_given(start_val) THEN start_val ELSE None
        limit == IF threshold # None THEN Some(abort_limit(Value(threshold))) ELSE None
    IN Query(order_by, where, limit)

(***************************************************************************)
(* The database, conn.execute(query): WHERE key >= value, ORDER BY key     *)
(* ascending, LIMIT n. Values of one type are ordered by SortKey. NULL     *)
(* sorts before every value, as SQL Server places it, and satisfies no     *)
(* comparison.                                                             *)
(***************************************************************************)
KeyColumn == "id"

StrRank(text) == CASE text = "" -> 0 [] text = "a" -> 1 [] OTHER -> 2

SortKey(value) ==
    CASE value.kind = "str" -> <<StrRank(value.text)>>
      [] OTHER -> value.data

RECURSIVE LexLess(_, _)
LexLess(a, b) ==
    IF a = <<>> \/ b = <<>> THEN a = <<>> /\ b # <<>>
    ELSE IF Head(a) # Head(b) THEN Head(a) < Head(b)
    ELSE LexLess(Tail(a), Tail(b))

Less(v, w) == LexLess(SortKey(v), SortKey(w))
GreaterEqual(v, w) == v # PyNone /\ ~Less(v, w)

RECURSIVE Insert(_, _)
Insert(row, sorted) ==
    IF sorted = <<>> THEN <<row>>
    ELSE IF Less(row[KeyColumn], Head(sorted)[KeyColumn]) THEN <<row>> \o sorted
    ELSE <<Head(sorted)>> \o Insert(row, Tail(sorted))

RECURSIVE OrderByKey(_)
OrderByKey(rows) ==
    IF rows = <<>> THEN <<>>
    ELSE Insert(rows[Len(rows)], OrderByKey(SubSeq(rows, 1, Len(rows) - 1)))

Min(a, b) == IF a <= b THEN a ELSE b

Matching(q, rows) ==
    SelectSeq(rows, LAMBDA r : q.where = None \/ GreaterEqual(r[KeyColumn], Value(q.where)))

execute(q, rows) ==
    LET filtered == Matching(q, rows)
        ordered == IF q.order_by = None THEN filtered ELSE OrderByKey(filtered)
    IN IF q.limit = None THEN ordered
       ELSE SubSeq(ordered, 1, Min(Value(q.limit), Len(ordered)))

\* self.schema["properties"]: each column's type under the configured policy
stream_properties(hd, types) ==
    [c \in DOMAIN types |-> to_jsonschema_type(hd, types[c])]

(***************************************************************************)
(* get_records as a state machine. The table holds what the driver returns *)
(* for the column types: int, str, bytes, date, datetime, time or None.    *)
(***************************************************************************)
PlainType(name) == SqlType(name, None, None, None)

KeyTypes == {"INTEGER", "VARCHAR", "DATETIME"}

\* replication_key_col.type.python_type
python_type(types) ==
    CASE types[KeyColumn].name = "INTEGER" -> "int"
      [] types[KeyColumn].name = "VARCHAR" -> "str"
      [] OTHER -> "datetime"

DriverValues(type_name) ==
    CASE type_name = "INTEGER" -> {PyInt(-1), PyInt(0), PyInt(1)}
      [] type_name = "VARCHAR" -> {PyStr(""), PyStr("a"), PyStr("b")}
      [] type_name = "DATETIME" ->
            {PyDateTime(2023, 12, 31, 23, 59, 59, 0), PyDateTime(2024, 1, 1, 0, 0, 0, 0),
             PyDateTime(2024, 1, 1, 0, 0, 0, 500)}
      [] type_name = "DATE" -> {PyDate(2024, 1, 5)}
      [] type_name = "TIME" -> {PyTime(13, 7, 9, 0)}
      [] OTHER -> {PyBytes(<<1>>), PyBytes(<<255, 0>>)}

PayloadTypes == {"VARBINARY", "ROWVERSION", "DATE", "DATETIME", "TIME", "VARCHAR"}

Contexts == {None, Some({}), Some({<<"partition", 1>>})}

Thresholds == {None} \cup {Some(n) : n \in 0..MaxAbort}

Row(id, val) == [c \in ColumnSet |-> IF c = KeyColumn THEN id ELSE val]

IdleStream ==
    /\ context = None
    /\ replication_key = None
    /\ bookmark = None
    /\ ABORT_AT_RECORD_COUNT = None
    /\ column_types = <<>>
    /\ key_nullable = FALSE
    /\ table = <<>>
    /\ query = None
    /\ cursor = <<>>
    /\ fetched = <<>>
    /\ emitted = <<>>
    /\ gr_pc = "idle"
    /\ gr_error = ""

\* incremental and full-table streams over keys of each type
InitKeyed ==
    /\ hd_jsonschema_types = FALSE
    /\ replication_key \in {None, Some(KeyColumn)}
    /\ key_nullable \in BOOLEAN
    /\ \E key_type \in KeyTypes :
          /\ column_types = Row(PlainType(key_type), PlainType("INTEGER"))
          /\ bookmark \in {None} \cup {Some(v) : v \in DriverValues(key_type)}
          /\ table \in SeqsUpTo({Row(id, PyInt(7)) :
                                    id \in DriverValues(key_type)
                                           \cup (IF key_nullable THEN {PyNone} ELSE {})},
                                MaxRows)
    /\ replication_key = None => (bookmark = None /\ column_types[KeyColumn].name = "INTEGER")
    /\ ABORT_AT_RECORD_COUNT \in Thresholds

\* full-table streams over payload columns of each type, under both policies
InitPayload ==
    /\ hd_jsonschema_types \in BOOLEAN
    /\ replication_key = None
    /\ key_nullable = FALSE
    /\ bookmark = None
    /\ ABORT_AT_RECORD_COUNT = None
    /\ \E payload \in PayloadTypes :
          /\ column_types = Row(PlainType("INTEGER"), PlainType(payload))
          /\ table \in SeqsUpTo({Row(PyInt(1), val) :
                                    val \in DriverValues(payload) \cup {PyNone}}, MaxRows)

InitStream ==
    /\ context \in Contexts
    /\ InitKeyed \/ InitPayload
    /\ sql_type = None /\ schema_type = None /\ tm_pc = "idle"
    /\ query = None
    /\ cursor = <<>>
    /\ fetched = <<>>
    /\ emitted = <<>>
    /\ gr_pc = "call"
    /\ gr_error = ""

gr_inputs ==
    <<context, replication_key, bookmark, ABORT_AT_RECORD_COUNT, column_types,
      key_nullable, table>>

\* lines 493-495
GetRecordsRaise ==
    /\ gr_pc = "call"
    /\ context_given(context)
    /\ gr_pc' = "raised"
    /\ gr_error' = "NotImplementedError"
    /\ UNCHANGED <<gr_inputs, query, cursor, fetched, emitted>>
    /\ UNCHANGED <<tm_vars, pp_vars, gb_vars, eh_vars, wm_vars>>

\* lines 497-564, up to the first row
GetRecordsExecute ==
    /\ gr_pc = "call"
    /\ ~context_given(context)
    /\ LET q == build_query(replication_key, python_type(column_types), bookmark,
                            ABORT_AT_RECORD_COUNT)
       IN /\ query' = Some(q)
          /\ cursor' = execute(q, table)
    /\ gr_pc' = "iterating"
    /\ UNCHANGED <<gr_inputs, fetched, emitted, gr_error>>
    /\ UNCHANGED <<tm_vars, pp_vars, gb_vars, eh_vars, wm_vars>>

\* lines 564-569, one iteration
GetRecordsYield ==
    /\ gr_pc = "iterating"
    /\ cursor # <<>>
    /\ LET outcome == post_process(Head(cursor),
                                   stream_properties(hd_jsonschema_types, column_types))
       IN /\ fetched' = Append(fetched, Head(cursor))
          /\ cursor' = Tail(cursor)
          /\ IF outcome.error # ""
             THEN /\ gr_pc' = "raised"
                  /\ gr_error' = outcome.error
                  /\ UNCHANGED emitted
             ELSE /\ emitted' = Append(emitted, outcome.record)
                  /\ UNCHANGED <<gr_pc, gr_error>>
    /\ UNCHANGED <<gr_inputs, query>>
    /\ UNCHANGED <<tm_vars, pp_vars, gb_vars, eh_vars, wm_vars>>

\* the result is exhausted
GetRecordsDone ==
    /\ gr_pc = "iterating"
    /\ cursor = <<>>
    /\ gr_pc' = "done"
    /\ UNCHANGED <<gr_inputs, query, cursor, fetched, emitted, gr_error>>
    /\ UNCHANGED <<tm_vars, pp_vars, gb_vars, eh_vars, wm_vars>>

NextStream == GetRecordsRaise \/ GetRecordsExecute \/ GetRecordsYield \/ GetRecordsDone

(***************************************************************************)
(* JSONLinesBatcher.get_batches.                                           *)
(***************************************************************************)
\* serialize_jsonl of tap_mssql/json.py: a record as one line of JSON text
\* followed by a newline. Records here are dictionaries with the one key id.
serialize_jsonl(record) == "{\"id\":" \o ToString(record.id) \o "}\n"

\* lazy_chunked_generator of singer_sdk: the next chunk is the next
\* chunk_size records of the iterator, fewer when it runs out
next_chunk_one_more(iterator, chunk_size) ==
    SubSeq(iterator, 1, Min(chunk_size + 1, Len(iterator)))

next_chunk_whole_source(iterator, chunk_size) == iterator

next_chunk(iterator, chunk_size) ==
    SubSeq(iterator, 1, Min(chunk_size, Len(iterator)))

\* f"{self.tap_name}--{self.stream_name}-{uuid4()}"
make_sync_id(tap_name, stream_name, uuid) ==
    tap_name \o "--" \o stream_name \o "-" \o uuid

\* self.batch_config.storage.prefix or ""
prefix_or_empty(prefix) ==
    IF prefix # None /\ Value(prefix) # "" THEN Value(prefix) ELSE ""

\* f"{prefix}{sync_id}-{i}.json.gz"
make_filename_without_index(prefix, id, i) ==
    prefix_or_empty(prefix) \o id \o ".json.gz"

make_filename(prefix, id, i) ==
    prefix_or_empty(prefix) \o id \o "-" \o ToString(i) \o ".json.gz"

\* gz.writelines(serialize_jsonl(record) for record in chunk)
RECURSIVE writelines(_)
writelines(recs) ==
    IF recs = <<>> THEN <<>>
    ELSE <<serialize_jsonl(Head(recs))>> \o writelines(Tail(recs))

\* fs.open(filename, "wb") and GzipFile(fileobj=f, mode="wb"): the file exists,
\* holds nothing yet and is open
open_file(name) ==
    [name |-> name, compression |-> "gzip", lines |-> <<>>, closed |-> FALSE]

\* the file written for a chunk: gzip over the lines, closed when the with
\* blocks are left
gzip_file(name, recs) ==
    [name |-> name, compression |-> "gzip", lines |-> writelines(recs), closed |-> TRUE]

\* fs.open(filename, "wb"): a new file, or an existing one truncated
store(fs, file) ==
    IF \E k \in 1..Len(fs) : fs[k].name = file.name
    THEN [k \in 1..Len(fs) |-> IF fs[k].name = file.name THEN file ELSE fs[k]]
    ELSE Append(fs, file)

\* fs.geturl(filename)
geturl(name) == "file://root/" \o name

TapName == "tap-mssql"
StreamName == "dbo-t"
UUIDs == {"u1", "u2"}
Prefixes == {None, Some(""), Some("batch-")}
BatchRecords == {[id |-> 1], [id |-> 2]}
\* the records handed to a later invocation: every number of them, one value
LaterRecords == {[k \in 1..n |-> [id |-> 1]] : n \in 0..MaxRecords}

IdleBatch ==
    /\ records = <<>>
    /\ consumed = <<>>
    /\ batch_size = 1
    /\ storage_prefix = None
    /\ sync_id = None
    /\ run_uuid = None
    /\ chunk_index = 0
    /\ chunk = None
    /\ files = <<>>
    /\ manifests = <<>>
    /\ opened = <<>>
    /\ past_runs = <<>>
    /\ gb_pc = "idle"

InitBatch ==
    /\ records \in SeqsUpTo(BatchRecords, MaxRecords)
    /\ consumed = <<>>
    /\ batch_size \in 1..MaxBatchSize
    /\ storage_prefix \in Prefixes
    /\ sync_id = None
    /\ run_uuid = None
    /\ chunk_index = 0
    /\ chunk = None
    /\ files = <<>>
    /\ manifests = <<>>
    /\ opened = <<>>
    /\ past_runs = <<>>
    /\ gb_pc = "call"

\* lines 399-400
GetBatchesStart ==
    /\ gb_pc = "call"
    /\ \E uuid \in UUIDs :
           /\ run_uuid' = Some(uuid)
           /\ sync_id' = Some(make_sync_id(TapName, StreamName, uuid))
    /\ gb_pc' = "pull"
    /\ UNCHANGED <<records, consumed, batch_size, storage_prefix, chunk_index, chunk,
                   files, manifests, opened, past_runs>>
    /\ UNCHANGED <<tm_vars, pp_vars, gr_vars, eh_vars, wm_vars>>

\* lines 402-408: the loop asks for the next chunk
PullChunk ==
    /\ gb_pc = "pull"
    /\ records # <<>>
    /\ LET c == next_chunk(records, batch_size)
       IN /\ chunk' = Some(c)
          /\ consumed' = consumed \o c
          /\ records' = SubSeq(records, Len(c) + 1, Len(records))
    /\ chunk_index' = chunk_index + 1
    /\ gb_pc' = "open"
    /\ UNCHANGED <<batch_size, storage_prefix, sync_id, run_uuid, files, manifests,
                   opened, past_runs>>
    /\ UNCHANGED <<tm_vars, pp_vars, gr_vars, eh_vars, wm_vars>>

\* lines 409-413: the file of the chunk is named and opened
OpenFile ==
    /\ gb_pc = "open"
    /\ LET filename == make_filename(storage_prefix, Value(sync_id), chunk_index)
       IN /\ files' = store(files, open_file(filename))
          /\ opened' = Append(opened, filename)
    /\ gb_pc' = "write"
    /\ UNCHANGED <<records, consumed, batch_size, storage_prefix, sync_id, run_uuid,
                   chunk_index, chunk, manifests, past_runs>>
    /\ UNCHANGED <<tm_vars, pp_vars, gr_vars, eh_vars, wm_vars>>

\* lines 414-419: the lines are written, both with blocks are left
WriteBatch ==
    /\ gb_pc = "write"
    /\ files' = store(files, gzip_file(opened[Len(opened)], Value(chunk)))
    /\ gb_pc' = "yield"
    /\ UNCHANGED <<records, consumed, batch_size, storage_prefix, sync_id, run_uuid,
                   chunk_index, chunk, manifests, opened, past_runs>>
    /\ UNCHANGED <<tm_vars, pp_vars, gr_vars, eh_vars, wm_vars>>

\* lines 419-420: the manifest of the file is yielded
YieldManifest ==
    /\ gb_pc = "yield"
    /\ manifests' = Append(manifests, <<geturl(opened[Len(opened)])>>)
    /\ chunk' = None
    /\ gb_pc' = "pull"
    /\ UNCHANGED <<records, consumed, batch_size, storage_prefix, sync_id, run_uuid,
                   chunk_index, files, opened, past_runs>>
    /\ UNCHANGED <<tm_vars, pp_vars, gr_vars, eh_vars, wm_vars>>

\* the iterator is exhausted: the generator returns
GetBatchesDone ==
    /\ gb_pc = "pull"
    /\ records = <<>>
    /\ gb_pc' = "done"
    /\ UNCHANGED <<records, consumed, batch_size, storage_prefix, sync_id, run_uuid,
                   chunk_index, chunk, files, manifests, opened, past_runs>>
    /\ UNCHANGED <<tm_vars, pp_vars, gr_vars, eh_vars, wm_vars>>

\* lines 387-398: get_batches is called again on the same batcher, with the
\* same configuration and storage and with new records
GetBatchesAgain ==
    /\ gb_pc = "done"
    /\ Len(past_runs) + 1 < MaxInvocations
    /\ past_runs' = Append(past_runs, [uuid |-> Value(run_uuid), names |-> opened])
    /\ records' \in LaterRecords
    /\ consumed' = <<>>
    /\ sync_id' = None
    /\ run_uuid' = None
    /\ chunk_index' = 0
    /\ chunk' = None
    /\ manifests' = <<>>
    /\ opened' = <<>>
    /\ gb_pc' = "call"
    /\ UNCHANGED <<batch_size, storage_prefix, files>>
    /\ UNCHANGED <<tm_vars, pp_vars, gr_vars, eh_vars, wm_vars>>

NextBatch ==
    \/ GetBatchesStart
    \/ PullChunk
    \/ OpenFile
    \/ WriteBatch
    \/ YieldManifest
    \/ GetBatchesDone
    \/ GetBatchesAgain

(***************************************************************************)
(* enc_hook (tap.py).                                                      *)
(***************************************************************************)
\* what the name datetime is bound to in tap.py: line 5 is `import datetime`,
\* which binds the module, not the class datetime.datetime
datetime_binding == "module"

\* the outcome of a call: the exception raised ("" if none) and the string returned
CallOutcome(error, value) == [error |-> error, value |-> value]

\* time.isoformat()
time_isoformat(f) ==
    Pad(f[1], 2) \o ":" \o Pad(f[2], 2) \o ":" \o Pad(f[3], 2)
        \o (IF f[4] = 0 THEN "" ELSE "." \o Pad(f[4], 6))

\* str(obj)
str(obj) ==
    CASE obj.kind = "None" -> "None"
      [] obj.kind = "int" -> ToString(obj.data[1])
      [] obj.kind = "str" -> obj.text
      [] obj.kind = "date" -> isoformat(obj)
      [] obj.kind = "time" -> time_isoformat(obj.data)
      [] obj.kind = "datetime" ->
             isoformat(PyDate(obj.data[1], obj.data[2], obj.data[3])) \o " "
                 \o time_isoformat(SubSeq(obj.data, 4, 7))

\* isinstance(obj, classinfo) raises TypeError when classinfo is not a class;
\* otherwise obj.isoformat(sep="T") for a datetime and str(obj) for the rest
enc_hook(obj) ==
    IF datetime_binding # "class"
    THEN CallOutcome("TypeError", "")
    ELSE IF obj.kind = "datetime"
         THEN CallOutcome("", isoformat(obj))
         ELSE CallOutcome("", str(obj))

DateTimes ==
    {PyDateTime(2024, m, d, hh, mm, ss, us) :
        m \in {1, 12}, d \in {1, 28}, hh \in {0, 23}, mm \in {0, 59}, ss \in {0, 59},
        us \in {0, 5}}

EncObjects ==
    DateTimes
        \cup {PyDate(y, m, d) : y \in {1, 2024}, m \in {1, 12}, d \in {1, 28}}
        \cup {PyTime(hh, 30, 0, us) : hh \in {0, 23}, us \in {0, 5}}
        \cup {PyInt(n) : n \in -1..1}
        \cup {PyStr(""), PyStr("a"), PyNone}

IdleEncHook ==
    /\ enc_obj = PyNone
    /\ enc_result = None

InitEncHook ==
    /\ enc_obj \in EncObjects
    /\ enc_result = None

\* lines 22-31
EncHook ==
    /\ enc_result = None
    /\ enc_result' = Some(enc_hook(enc_obj))
    /\ UNCHANGED enc_obj
    /\ UNCHANGED <<tm_vars, pp_vars, gr_vars, gb_vars, wm_vars>>

NextEncHook == EncHook

(***************************************************************************)
(* Tapmssql.format_message and write_message (tap.py).  Bytes are          *)
(* one-character strings.                                                  *)
(***************************************************************************)
\* bytearray(64), line 19
BufferSize == 64

NUL == "\\x00"

\* the characters of the strings the messages are made of
Chars(text) ==
    CASE text = "type" -> <<"t", "y", "p", "e">>
      [] text = "STATE" -> <<"S", "T", "A", "T", "E">>
      [] text = "RECORD" -> <<"R", "E", "C", "O", "R", "D">>
      [] text = "value" -> <<"v", "a", "l", "u", "e">>
      [] text = "stream" -> <<"s", "t", "r", "e", "a", "m">>
      [] text = "record" -> <<"r", "e", "c", "o", "r", "d">>
      [] text = "id" -> <<"i", "d">>
      [] text = "t" -> <<"t">>

RECURSIVE int_chars(_)
int_chars(n) ==
    IF n < 10 THEN <<ToString(n)>> ELSE int_chars(n \div 10) \o <<ToString(n % 10)>>

\* message.to_dict(): the items of the dictionary in order; a value is a
\* string, an integer or a dictionary of one integer item
Item(key, kind, text, inner, number) ==
    [key |-> key, kind |-> kind, text |-> text, inner |-> inner, number |-> number]

StateMessage(n) == [type |-> "STATE", number |-> n]
RecordMessage(n) == [type |-> "RECORD", number |-> n]

to_dict(message) ==
    IF message.type = "STATE"
    THEN <<Item("type", "str", "STATE", "", 0),
           Item("value", "int", "", "", message.number)>>
    ELSE <<Item("type", "str", "RECORD", "", 0),
           Item("stream", "str", "t", "", 0),
           Item("record", "dict", "", "id", message.number)>>

encode_str(text) == <<"\"">> \o Chars(text) \o <<"\"">>

encode_item(item) ==
    encode_str(item.key) \o <<":">> \o
        (CASE item.kind = "str" -> encode_str(item.text)
           [] item.kind = "int" -> int_chars(item.number)
           [] item.kind = "dict" ->
                  <<"{">> \o encode_str(item.inner) \o <<":">>
                      \o int_chars(item.number) \o <<"}">>)

RECURSIVE encode_items(_)
encode_items(items) ==
    IF items = <<>> THEN <<>>
    ELSE IF Len(items) = 1 THEN encode_item(items[1])
    ELSE encode_item(items[1]) \o <<",">> \o encode_items(Tail(items))

\* msgspec.json.Encoder.encode: compact JSON
encode(obj) == <<"{">> \o encode_items(obj) \o <<"}">>

\* msgspec.json.Encoder.encode_into(obj, buffer) with the default offset 0:
\* the message is written from the start of the buffer, which is grown as
\* needed and truncated to the end of the message
encode_into_keeps_tail(obj, buffer) ==
    encode(obj) \o SubSeq(buffer, Len(encode(obj)) + 1, Len(buffer))

encode_into(obj, buffer) == encode(obj)

\* lines 189-191: the buffer after format_message, which is what it returns
format_message(message, buffer) == Append(encode_into(to_dict(message), buffer), "\n")

Messages == {StateMessage(n) : n \in {7, 1234}} \cup {RecordMessage(n) : n \in {7, 1234}}

IdleWrite ==
    /\ pending = <<>>
    /\ written = <<>>
    /\ msg_buffer = Repeat(NUL, BufferSize)
    /\ stdout = <<>>

InitWrite ==
    /\ pending \in SeqsUpTo(Messages, MaxMessages)
    /\ written = <<>>
    /\ msg_buffer = Repeat(NUL, BufferSize)
    /\ stdout = <<>>

\* lines 193-200, with format_message (180-191)
WriteMessage ==
    /\ pending # <<>>
    /\ msg_buffer' = format_message(Head(pending), msg_buffer)
    /\ stdout' = Append(stdout, msg_buffer')
    /\ written' = Append(written, Head(pending))
    /\ pending' = Tail(pending)
    /\ UNCHANGED <<tm_vars, pp_vars, gr_vars, gb_vars, eh_vars>>

NextWrite == WriteMessage

(***************************************************************************)
(* Specifications.                                                         *)
(***************************************************************************)
IdleTap == IdleEncHook /\ IdleWrite

TypesInit == InitTypes /\ IdlePost /\ IdleStream /\ IdleBatch /\ IdleTap
PostInit == IdleTypes /\ InitPost /\ IdleStream /\ IdleBatch /\ IdleTap
StreamInit == InitStream /\ IdlePost /\ IdleBatch /\ IdleTap
BatchInit == IdleTypes /\ IdlePost /\ IdleStream /\ InitBatch /\ IdleTap
EncHookInit == IdleTypes /\ IdlePost /\ IdleStream /\ IdleBatch /\ InitEncHook /\ IdleWrite
WriteInit == IdleTypes /\ IdlePost /\ IdleStream /\ IdleBatch /\ IdleEncHook /\ InitWrite

SpecTypes == TypesInit /\ [][NextTypes]_vars
SpecPost == PostInit /\ [][NextPost]_vars
SpecStream == StreamInit /\ [][NextStream]_vars
SpecBatch == BatchInit /\ [][NextBatch]_vars
SpecEncHook == EncHookInit /\ [][NextEncHook]_vars
SpecWrite == WriteInit /\ [][NextWrite]_vars

(***************************************************************************)
(* Properties of get_batches (specification SpecBatch).                    *)
(***************************************************************************)
\* the records handed in: those pulled so far and those still to come
Input == consumed \o records

\* ceil(n / b)
CeilDiv(n, b) == (n + b - 1) \div b

\* the file a manifest names
FileOf(manifest) ==
    CHOOSE f \in {files[k] : k \in 1..Len(files)} : manifest = <<geturl(f.name)>>

RECURSIVE LinesOf(_)
LinesOf(ms) ==
    IF ms = <<>> THEN <<>> ELSE FileOf(Head(ms)).lines \o LinesOf(Tail(ms))

\* C1: for N records and batch size B >= 1 get_batches yields ceil(N/B)
\* manifests; every file but the last holds B records, the last holds
\* N - B*(ceil(N/B) - 1); and the files' records in manifest order are the
\* input sequence.
C1_Chunking ==
    gb_pc = "done" =>
        LET N == Len(Input)
            count == CeilDiv(N, batch_size)
        IN /\ Len(manifests) = count
           /\ \A k \in 1..Len(manifests) :
                  /\ \E f \in {files[j] : j \in 1..Len(files)} :
                         manifests[k] = <<geturl(f.name)>>
                  /\ Len(FileOf(manifests[k]).lines) =
                         IF k < count THEN batch_size ELSE N - batch_size * (count - 1)
           /\ LinesOf(manifests) = [k \in 1..N |-> serialize_jsonl(Input[k])]

\* a run whose last file is shorter than the others has finished
C1_Witness ==
    /\ gb_pc = "done"
    /\ Len(Input) = MaxRecords
    /\ batch_size = MaxBatchSize
    /\ Len(manifests) = CeilDiv(MaxRecords, MaxBatchSize)
    /\ Len(manifests) > 1

\* the name the k-th file of the running invocation is to have
ExpectedName(k) ==
    (IF storage_prefix = None THEN "" ELSE Value(storage_prefix))
        \o TapName \o "--" \o StreamName \o "-" \o Value(run_uuid)
        \o "-" \o ToString(k) \o ".json.gz"

\* every invocation so far: the uuid it drew and the names of its files
Runs ==
    IF run_uuid = None THEN past_runs
    ELSE Append(past_runs, [uuid |-> Value(run_uuid), names |-> opened])

NamesOf(run) == {run.names[k] : k \in 1..Len(run.names)}

\* C12: within one invocation of get_batches the k-th manifest names exactly
\* one file, {prefix}{runId}-{k}.json.gz, with the run id drawn once for the
\* invocation and the prefix the configured one or empty; the indices start at
\* 1 and rise by one without gaps, so the names of one invocation are pairwise
\* distinct, and two invocations that drew different uuids share no file name.
C12_FileNames ==
    /\ \A k \in 1..Len(opened) : opened[k] = ExpectedName(k)
    /\ \A k \in 1..Len(manifests) :
           /\ Len(manifests[k]) = 1
           /\ manifests[k][1] = geturl(ExpectedName(k))
    /\ \A j, k \in 1..Len(opened) : j # k => opened[j] # opened[k]
    /\ \A q, r \in 1..Len(Runs) :
           Runs[q].uuid # Runs[r].uuid => NamesOf(Runs[q]) \cap NamesOf(Runs[r]) = {}

\* a second invocation with another uuid and a prefix has yielded two manifests
\* after a first one that wrote two files
C12_Witness ==
    /\ Len(past_runs) = 1
    /\ run_uuid # None
    /\ past_runs[1].uuid # Value(run_uuid)
    /\ Len(past_runs[1].names) >= 2
    /\ Len(manifests) >= 2
    /\ storage_prefix = Some("batch-")

\* the lines the k-th file of the running invocation is to hold
ChunkLines(k) ==
    LET first == batch_size * (k - 1) + 1
        last == Min(batch_size * k, Len(Input))
    IN [n \in 1..(last - first + 1) |-> serialize_jsonl(Input[first + n - 1])]

\* the generator is between two chunks: suspended at its k-th yield, or not
\* yet in the loop (k = 0)
BetweenChunks == gb_pc = "pull"

C13_AtYield ==
    /\ \A k \in 1..Len(manifests) :
           /\ manifests[k] = <<geturl(opened[k])>>
           /\ FileOf(manifests[k]).closed
           /\ FileOf(manifests[k]).lines = ChunkLines(k)
    /\ BetweenChunks =>
           /\ Len(opened) = Len(manifests)
           /\ Len(consumed) <= Len(manifests) * batch_size
    /\ gb_pc = "done" => records = <<>> /\ Len(opened) = Len(manifests)

C13_Step ==
    /\ gb_pc' # "call" =>
           /\ Len(manifests') \in {Len(manifests), Len(manifests) + 1}
           /\ SubSeq(manifests', 1, Len(manifests)) = manifests
    /\ (BetweenChunks /\ records = <<>>) => gb_pc' = "done"
    /\ gb_pc = "done" => gb_pc' = "call"

\* C13: get_batches is lazy and ordered: when the k-th manifest is yielded
\* file k is completely written and closed, files 1..k-1 were written and
\* their manifests yielded before it in index order, no file of a higher index
\* has been opened and at most k * batch_size records have been pulled from
\* the source; once the source is exhausted the generator returns and yields
\* nothing more.
C13_LazyOrdered == [](C13_AtYield) /\ [][C13_Step]_vars

\* the second manifest has been yielded while the source still holds records
C13_Witness ==
    /\ BetweenChunks
    /\ Len(manifests) = 2
    /\ Len(consumed) = 2 * batch_size
    /\ records # <<>>

(***************************************************************************)
(* Properties of the type mapper (specification SpecTypes).                *)
(***************************************************************************)
Returned == tm_pc = "returned"
Result == Value(schema_type)
HdDecimal ==
    Returned /\ hd_jsonschema_types /\ sql_type.name \in DecimalTypes
Precision == Value(sql_type.precision)
Scale == Value(sql_type.scale)

\* 10^P - 1 written out: P nines
NinesText(p) == Join(Repeat("9", p))

\* C5: under the extended policy every NUMERIC or DECIMAL type with scale 0
\* and precision P >= 1 maps to an integer type with minimum -(10^P - 1) and
\* maximum 10^P - 1.
C5_IntegerBounds ==
    (HdDecimal /\ Scale = 0) =>
        Result = Bounded("integer", IntNum("-" \o NinesText(Precision)),
                         IntNum(NinesText(Precision)))

\* a scale-0 type whose bounds do not fit a machine word has been mapped
C5_Witness == HdDecimal /\ Scale = 0 /\ Precision >= 10

\* the bounds the two branches of the scale # 0 case report
DecimalLiteralText == NinesText(Precision - Scale) \o "." \o NinesText(Scale)
ScientificText == "9." \o NinesText(Scale) \o "e+" \o ToString(Precision)
DecimalLiteralBounds ==
    Bounded("number", FloatNum("-" \o DecimalLiteralText),
            FloatNum(DecimalLiteralText))
ScientificBounds ==
    Bounded("number", FloatNum("-" \o ScientificText), FloatNum(ScientificText))

Literal == maximum_as_number(Precision, Precision, Scale)
Rendering == str_float(Literal)

\* C6 as stated: for scale S # 0 the literal is P nines with a point S places
\* from the right, and the scientific bounds are reported exactly when the
\* rendering of the parsed literal contains an exponent marker or its leading
\* digit differs from the literal's leading digit; otherwise the
\* decimal-literal bounds are reported.
C6_AsStated ==
    (HdDecimal /\ Scale # 0) =>
        /\ Join(Literal) = DecimalLiteralText
        /\ Result = IF \/ ContainsExponent(Rendering)
                       \/ LeadingDigit(Rendering) # LeadingDigit(Literal)
                    THEN ScientificBounds
                    ELSE DecimalLiteralBounds

\* C6 amended: the scientific bounds are reported exactly when the rendering
\* contains an exponent marker or its leading digit is 1 (the parse rounded the
\* literal up to the next power of ten); otherwise, also when S = P and the
\* rendering starts with a 0 the literal does not have, the decimal-literal
\* bounds are reported.
C6_BoundSelection ==
    (HdDecimal /\ Scale # 0) =>
        /\ Join(Literal) = DecimalLiteralText
        /\ Result = IF \/ ContainsExponent(Rendering)
                       \/ LeadingDigit(Rendering) = "1"
                    THEN ScientificBounds
                    ELSE DecimalLiteralBounds

\* a literal that rounds up to a power of ten printed without an exponent has
\* been mapped to the scientific bounds
C6_Witness ==
    /\ HdDecimal /\ Scale # 0
    /\ ~ContainsExponent(Rendering) /\ LeadingDigit(Rendering) = "1"
    /\ Result = ScientificBounds

\* C7: under the extended policy a CHAR, NCHAR, VARCHAR or NVARCHAR type with
\* declared length L maps to a string type with maxLength = L, and one without
\* a length maps to a string type with no maxLength.
C7_TextMaxLength ==
    (Returned /\ hd_jsonschema_types /\ sql_type.name \in TextTypes) =>
        /\ Result.type = <<"string">>
        /\ Result.maxLength = sql_type.length

\* both a bounded and an unbounded text type occur; the bounded one is cited
C7_Witness ==
    /\ Returned /\ hd_jsonschema_types /\ sql_type.name = "NVARCHAR"
    /\ sql_type.length = Some(MaxLength)
    /\ Result.maxLength = Some(MaxLength)

(***************************************************************************)
(* Properties of get_records (specification SpecStream).                   *)
(***************************************************************************)
Planned == Value(query)

\* rows of the table the planned query selects, before any limit
Available == Len(Matching(Planned, table))

\* C2: whenever a replication key is set and a bookmark value is present,
\* whatever the value, the planned query orders ascending by the key and
\* filters key >= bookmark, and no row with a key below the bookmark is
\* fetched.
C2_BookmarkFilter ==
    (replication_key # None /\ bookmark # None /\ query # None) =>
        /\ Planned.order_by = Some("asc")
        /\ Matching(Planned, table) =
               SelectSeq(table, LAMBDA r : GreaterEqual(r[KeyColumn], Value(bookmark)))
        /\ \A i \in 1..Len(fetched) :
               GreaterEqual(fetched[i][KeyColumn], Value(bookmark))

\* C3: with an abort threshold T and A rows available get_records fetches and
\* yields exactly min(A, T + 1) rows, and all A rows without a threshold; so
\* T + 1 rows are seen exactly when more than T rows exist.
C3_AbortThreshold ==
    gr_pc = "done" =>
        LET expected == IF ABORT_AT_RECORD_COUNT = None THEN Available
                        ELSE Min(Available, Value(ABORT_AT_RECORD_COUNT) + 1)
        IN /\ Len(fetched) = expected
           /\ Len(emitted) = expected
           /\ ABORT_AT_RECORD_COUNT # None =>
                  ((Len(emitted) = Value(ABORT_AT_RECORD_COUNT) + 1)
                      <=> (Available > Value(ABORT_AT_RECORD_COUNT)))

\* more rows than the threshold exist and one more than the threshold came out
C3_Witness ==
    /\ gr_pc = "done"
    /\ ABORT_AT_RECORD_COUNT = Some(1)
    /\ Available = MaxRows
    /\ Len(emitted) = 2

FailedFast ==
    /\ gr_pc = "raised"
    /\ gr_error = "NotImplementedError"
    /\ query = None
    /\ fetched = <<>>
    /\ emitted = <<>>

\* C4 as stated: whenever a context that is not absent is passed, an empty
\* mapping included, the call fails with a not-supported error before a query
\* is built or a row is yielded.
C4_AsStated == (context # None /\ gr_pc # "call") => FailedFast

\* C4 amended: whenever a non-empty context is passed the call fails with a
\* not-supported error before a query is built or a row is yielded; an empty
\* context mapping is treated like an absent one and the query is built.
C4_NonEmptyContextFails ==
    gr_pc # "call" =>
        /\ (context # None /\ Value(context) # {}) => FailedFast
        /\ (context = Some({})) => (query # None /\ gr_error = "")

\* a call with a partition in its context has failed
C4_Witness == context = Some({<<"partition", 1>>}) /\ FailedFast

\* C10: in every record get_records yields, under either policy, a binary
\* value has been replaced by its base64 string and a date, timestamp or
\* time-of-day value by a string; no bytes or date/time object is emitted.
C10_EncodedRecords ==
    \A i \in 1..Len(emitted) : \A c \in ColumnSet :
        /\ emitted[i][c].kind \notin {"bytes", "date", "datetime", "time"}
        /\ (i <= Len(fetched) /\ fetched[i][c].kind = "bytes")
               => emitted[i][c] = PyStr(b64encode(fetched[i][c].data))

(***************************************************************************)
(* Properties of post_process (specification SpecPost).                    *)
(***************************************************************************)
First == Value(pp_first)
Second == Value(pp_second)

\* C8: post_process leaves every null field unchanged, leaves a non-null
\* field that the schema does not declare unchanged without failing, and never
\* changes the set of keys of the row.
C8_UndeclaredPassThrough ==
    pp_first # None =>
        /\ First.error = ""
        /\ DOMAIN First.record = DOMAIN pp_row
        /\ \A key \in DOMAIN pp_row :
               (pp_row[key] = PyNone \/ key \notin DOMAIN pp_properties)
                   => First.record[key] = pp_row[key]

\* C9: a second application of post_process to its own output succeeds and
\* returns the row the first application returned.
C9_Idempotent ==
    pp_second # None =>
        /\ Second.error = ""
        /\ Second.record = First.record

(***************************************************************************)
(* enc_hook and write_message.                                             *)
(***************************************************************************)
\* C14: enc_hook never fails: for a datetime it returns the ISO-8601 rendering
\* with "T" as the separator, for every other object it returns str(obj).
C14_EncHookNeverFails ==
    enc_result # None =>
        /\ Value(enc_result).error = ""
        /\ Value(enc_result).value =
               IF enc_obj.kind = "datetime" THEN isoformat(enc_obj) ELSE str(enc_obj)

RECURSIVE Flatten(_)
Flatten(seqs) == IF seqs = <<>> THEN <<>> ELSE Head(seqs) \o Flatten(Tail(seqs))

\* encode(m1) + newline + ... + encode(mn) + newline
ExpectedOutput(messages) ==
    Flatten([k \in 1..Len(messages) |-> encode(to_dict(messages[k])) \o <<"\n">>])

Newlines(bytes) == Len(SelectSeq(bytes, LAMBDA b : b = "\n"))

\* C15: for the messages m1..mn passed to write_message so far, standard
\* output holds exactly encode(m1) + newline + ... + encode(mn) + newline in
\* call order; each write is one message and one trailing newline, with no
\* byte left over from an earlier message in the shared buffer.
C15_OutputStream ==
    /\ Flatten(stdout) = ExpectedOutput(written)
    /\ Len(stdout) = Len(written)
    /\ \A k \in 1..Len(stdout) :
           /\ stdout[k] = encode(to_dict(written[k])) \o <<"\n">>
           /\ Newlines(stdout[k]) = 1
           /\ \A n \in 1..Len(stdout[k]) : stdout[k][n] # NUL

\* a shorter message has been written after a longer one
C15_Witness ==
    /\ Len(written) >= 2
    /\ \E k \in 2..Len(written) :
           Len(encode(to_dict(written[k]))) < Len(encode(to_dict(written[k - 1])))

====
